---- MODULE Spec2Model ----
(***************************************************************************)
(* State-machine model of scipybiteopt's two source files:                 *)
(*   - src/tester.h: CTester (init, run) and its optimizer adapter         *)
(*     CTestOpt (updateDims, getMinValues, getMaxValues);                   *)
(*   - src/scipybiteopt/biteopt_py_ext.cpp: minimize_func, the Python      *)
(*     entry point around biteopt_minimize.                                 *)
(*                                                                         *)
(* Doubles are modelled as fixed-point numbers with Scale units per 1.0,   *)
(* extended with NaN and Inf so that a division by zero is visible.        *)
(* The optimizer (CBEOOptimizerFan), the random generator (CBEORnd) and    *)
(* the corpus (testfn.h) are not part of the two files; they are modelled  *)
(* from their documented interfaces: the generator is a deterministic      *)
(* state transition, and the optimizer's cost after a draw is an unknown   *)
(* but fixed function of the draw (env.cost), chosen in Init.              *)
(* The tick counter tc (rdtsc deltas) is not modelled: no claim reads it.  *)
(***************************************************************************)
EXTENDS Integers, Sequences, FiniteSets, TLC

\* ------------------------------------------------------------- bounds
MaxFnCount == 2
MaxDims == 1
MaxIterCount == 2
MaxInnerIterCount == 2
MaxCost == 2
RndMod == 3
Scale == 10
MaxListLen == 2
MaxBound == 2
MaxEvals == 2

\* A trial whose step counter can never equal InnerIterCount is followed
\* for this many steps.
StepCap == MaxInnerIterCount + 2

\* The threshold values tried: one unreachable (negative), one reachable.
Thresholds == {-1, 1}

\* tester.h:260-261: the statistic of a function whose trials all rejected.
Sentinel == 1000000

VARIABLES
    pc,     \* position in CTester: "new", "ready", then inside run()
    cfg,    \* fields set by init(): DefDims, CostThreshold, IterCount, ...
    agg,    \* ItAvg, ItRtAvg, RjAvg
    loc,    \* run()'s locals: k, j, i, AvgIter, AvgCost, AvgRjCost, Rej, Iters
    opt,    \* the CTestOpt object: fn, Dims, signs, DoRandomize + optimizer state
    rnd,    \* state of the global generator rnd
    env,    \* seed given to rnd, and the optimizer's cost for each draw
    out,    \* per function: the values of the report line (Avg, RMS, Rej, ...)
    calls,  \* how often updateDims, the sign phase, init, optimize have run,
            \* and the getBestCost() values read in the current trial
    prev,   \* results of the previous run() on this tester
    runNo,  \* number of the current run()
    py      \* the Python entry point: arguments, result, optimizer calls

vars == <<pc, cfg, agg, loc, opt, rnd, env, out, calls, prev, runNo, py>>

\* ------------------------------------------------------------ doubles
NaN == [k |-> "nan", v |-> 0]

Inf == [k |-> "inf", v |-> 0]

D(n) == [k |-> "num", v |-> n * Scale]

IsNum(a) == a.k = "num"

DAdd(a, b) ==
    IF a.k = "nan" \/ b.k = "nan" THEN NaN
    ELSE IF a.k = "inf" \/ b.k = "inf" THEN Inf
    ELSE [k |-> "num", v |-> a.v + b.v]

DSub(a, b) ==
    IF a.k = "nan" \/ b.k = "nan" THEN NaN
    ELSE IF a.k = "inf" /\ b.k = "inf" THEN NaN
    ELSE IF a.k = "inf" \/ b.k = "inf" THEN Inf
    ELSE [k |-> "num", v |-> a.v - b.v]

DMul(a, b) ==
    IF a.k = "nan" \/ b.k = "nan" THEN NaN
    ELSE IF a.k = "inf" \/ b.k = "inf"
         THEN (IF (a.k = "num" /\ a.v = 0) \/ (b.k = "num" /\ b.v = 0)
               THEN NaN ELSE Inf)
    ELSE [k |-> "num", v |-> (a.v * b.v) \div Scale]

\* IEEE division: x/0 is Inf, 0/0 is NaN; nothing traps.
DDiv(a, b) ==
    IF a.k = "nan" \/ b.k = "nan" THEN NaN
    ELSE IF a.k = "inf" THEN (IF b.k = "inf" THEN NaN ELSE Inf)
    ELSE IF b.k = "inf" THEN [k |-> "num", v |-> 0]
    ELSE IF b.v = 0 THEN (IF a.v = 0 THEN NaN ELSE Inf)
    ELSE [k |-> "num", v |-> (a.v * Scale) \div b.v]

ISqrt(n) == CHOOSE r \in 0..n : r * r <= n /\ n < (r + 1) * (r + 1)

DSqrt(a) ==
    IF a.k = "nan" THEN NaN
    ELSE IF a.k = "inf" THEN Inf
    ELSE IF a.v < 0 THEN NaN
    ELSE [k |-> "num", v |-> ISqrt(a.v * Scale)]

Min(a, b) == IF a <= b THEN a ELSE b

\* ------------------------------------------------- external collaborators
\* The corpus: function n of the NULL-terminated list. Dims = 0 means
\* "variable": use the run's default.
TestFn(n) ==
    [Dims |-> n % 2, RangeMin |-> 0 - n, RangeMax |-> n,
     OptValue |-> 2 * ((n + 1) % 2)]

\* CBEORnd::getRndValue: advances the generator; the new state s stands
\* for the uniform value s / RndMod in [0, 1).
getRndValue(s) == (s + 1) % RndMod

\* The value returned by the m-th call of getRndValue from state s.
RndAt(s, m) == (s + m) % RndMod

CostSet == 0..MaxCost

\* ------------------------------------------------------------ CTestOpt
\* Number of generator draws one of getMinValues / getMaxValues makes.
BoundDraws(o) == IF o.DoRandomize THEN o.Dims ELSE 0

\* p[i] = Range * (0.5 + rnd.getRndValue() * 0.5), with draw r / RndMod.
RandomizedBound(range, r) == (range * Scale * (RndMod + r)) \div (2 * RndMod)

getMinValues(o, s) ==
    [m \in 1..o.Dims |->
        IF o.DoRandomize
        THEN RandomizedBound(TestFn(o.fn).RangeMin, RndAt(s, m))
        ELSE TestFn(o.fn).RangeMin * Scale]

getMaxValues(o, s) ==
    [m \in 1..o.Dims |->
        IF o.DoRandomize
        THEN RandomizedBound(TestFn(o.fn).RangeMax, RndAt(s, m))
        ELSE TestFn(o.fn).RangeMax * Scale]

\* Faulty variant: the buffers are reallocated but Dims keeps its old value.
updateDims_KeepDims(o, aDims) ==
    [o EXCEPT !.signs = [m \in 1..aDims |-> 0]]

\* updateDims: Dims = aDims; signs and tp reallocated (contents
\* indeterminate, written before they are read; 0 stands for "not set").
\* The arrays are released with delete, not delete[]; for arrays of double
\* this frees the block, which is what is modelled.
updateDims(o, aDims) ==
    [o EXCEPT !.Dims = aDims, !.signs = [m \in 1..aDims |-> 0]]

\* CBEOOptimizerFan::init(rnd): reads the adapter's bounds, then draws its
\* starting point; the best cost is the cost of that draw.
OptInit(o, s, cost) ==
    LET s1 == RndAt(s, BoundDraws(o))
        s2 == RndAt(s1, BoundDraws(o))
        s3 == getRndValue(s2)
    IN  [o |-> [o EXCEPT !.MinValues = getMinValues(o, s),
                         !.MaxValues = getMaxValues(o, s1),
                         !.BestCost = cost[s3]],
         s |-> s3]

\* CBEOOptimizerFan::optimize(rnd): one step; the best cost never rises.
OptStep(o, s, cost) ==
    LET s1 == getRndValue(s)
    IN  [o |-> [o EXCEPT !.BestCost = Min(o.BestCost, cost[s1])], s |-> s1]

\* signs[i] = rnd.getRndValue() < 0.5 ? 1.0 : -1.0, for i = 0 .. Dims-1.
DrawSigns(dims, s) ==
    [m \in 1..dims |-> IF 2 * RndAt(s, m) < RndMod THEN 1 ELSE -1]

\* ------------------------------------------------------- CTester::run
\* The stop condition of a trial.
Converged(best, optValue, threshold) == best - optValue < threshold

\* The reject condition, tested after the stop condition failed.
Exhausted(i, innerIterCount) == i = innerIterCount

ResolvedDims(n, defDims) ==
    IF TestFn(n).Dims = 0 THEN defDims ELSE TestFn(n).Dims

ZeroAgg == [ItAvg |-> D(0), ItRtAvg |-> D(0), RjAvg |-> D(0)]

\* Faulty variant: run() does not reset the aggregates.
RunReset_Keep(a) == a

\* ItAvg = 0.0; ItRtAvg = 0.0; RjAvg = 0.0;
RunReset(a) == ZeroAgg

\* Faulty variant: the total-failure test is strict.
TotalFailure_Strict(rej, iterCount) == rej > iterCount

\* if( Rej >= IterCount )
TotalFailure(rej, iterCount) == rej >= iterCount

FuncAvg(avgIter, iterCount, rej) ==
    IF TotalFailure(rej, iterCount) THEN D(Sentinel)
    ELSE DDiv(D(avgIter), D(iterCount - rej))

RECURSIVE SqSum(_, _, _)
\* RMS += v * v over the trials j <= n with Iters[ j ] >= 0.
SqSum(iters, avg, n) ==
    IF n = 0 THEN D(0)
    ELSE LET rest == SqSum(iters, avg, n - 1)
             v == DSub(D(iters[n]), avg)
         IN  IF iters[n] >= 0 THEN DAdd(rest, DMul(v, v)) ELSE rest

FuncRMS(iters, avg, iterCount, rej) ==
    IF TotalFailure(rej, iterCount) THEN D(Sentinel)
    ELSE DSqrt(DDiv(SqSum(iters, avg, iterCount), D(iterCount - rej)))

\* AvgCost /= ( IterCount - Rej ); AvgRjCost /= Rej;
FuncAvgCost(avgCost, iterCount, rej) == DDiv(D(avgCost), D(iterCount - rej))

FuncAvgRjCost(avgRjCost, rej) == DDiv(D(avgRjCost), D(rej))

RejectRate(rej, iterCount) == DDiv(D(rej), D(iterCount))

\* Faulty variant: a function whose trials all rejected is left out of the sums.
AggAdd_SkipFailed(a, avg, rms, rej, iterCount) ==
    IF rej >= iterCount THEN a
    ELSE [ItAvg |-> DAdd(a.ItAvg, avg),
          ItRtAvg |-> DAdd(a.ItRtAvg, DDiv(rms, avg)),
          RjAvg |-> DAdd(a.RjAvg, DDiv(D(rej), D(iterCount)))]

\* ItAvg += Avg; ItRtAvg += RMS / Avg; RjAvg += (double) Rej / IterCount;
AggAdd(a, avg, rms, rej, iterCount) ==
    [ItAvg |-> DAdd(a.ItAvg, avg),
     ItRtAvg |-> DAdd(a.ItRtAvg, DDiv(rms, avg)),
     RjAvg |-> DAdd(a.RjAvg, RejectRate(rej, iterCount))]

AggFinish(a, fnCount) ==
    [ItAvg |-> DDiv(a.ItAvg, D(fnCount)),
     ItRtAvg |-> DDiv(a.ItRtAvg, D(fnCount)),
     RjAvg |-> DDiv(a.RjAvg, D(fnCount))]

NoCalls ==
    [updateDims |-> 0, signs |-> 0, init |-> 0, optimize |-> 0, classified |-> 0,
     best |-> <<>>]

NoLocals ==
    [k |-> 0, j |-> 0, i |-> 0, AvgIter |-> 0, AvgCost |-> 0, AvgRjCost |-> 0,
     Rej |-> 0, Iters |-> <<>>]

NoOpt ==
    [fn |-> 0, Dims |-> 0, signs |-> <<>>, DoRandomize |-> FALSE,
     BestCost |-> 0, MinValues |-> <<>>, MaxValues |-> <<>>]

NoCfg ==
    [DefDims |-> 0, CostThreshold |-> 0, IterCount |-> 0, InnerIterCount |-> 0,
     DoRandomize |-> FALSE, FnCount |-> 0]

NoPy == [state |-> "none"]

\* CTester::init: stores the configuration and counts the corpus up to its
\* NULL terminator. Nothing is validated.
init(aDefDims, nFuncs, aThreshold, aIterCount, aInnerIterCount, aDoRandomize) ==
    /\ pc = "new"
    /\ cfg' = [DefDims |-> aDefDims, CostThreshold |-> aThreshold,
               IterCount |-> aIterCount, InnerIterCount |-> aInnerIterCount,
               DoRandomize |-> aDoRandomize, FnCount |-> nFuncs]
    /\ pc' = "ready"
    /\ UNCHANGED <<agg, loc, opt, rnd, env, out, calls, prev, runNo, py>>

\* run(), up to the head of the loop over the functions: the aggregates
\* are reset and Iters = new int[ IterCount ], which throws for a negative
\* count.
run_begin ==
    /\ pc = "ready"
    /\ agg' = RunReset(agg)
    /\ out' = <<>>
    /\ calls' = NoCalls
    /\ IF cfg.IterCount < 0
       THEN /\ pc' = "threw"
            /\ UNCHANGED loc
       ELSE /\ pc' = "func"
            /\ loc' = [NoLocals EXCEPT !.Iters = [m \in 1..cfg.IterCount |-> 0]]
    /\ UNCHANGED <<cfg, opt, rnd, env, prev, runNo, py>>

\* Head of the loop body for function k: locals reset, opt -> fn set,
\* updateDims (new double[ Dims ] throws for negative Dims), signs set to
\* +1 once when randomization is off.
func_begin ==
    /\ pc = "func"
    /\ loc.k < cfg.FnCount
    /\ LET n == loc.k + 1
           Dims == ResolvedDims(n, cfg.DefDims)
       IN  /\ loc' = [loc EXCEPT !.AvgIter = 0, !.AvgCost = 0, !.AvgRjCost = 0,
                                 !.Rej = 0, !.j = 0]
           /\ IF Dims < 0
              THEN /\ pc' = "threw"
                   /\ opt' = [opt EXCEPT !.fn = n, !.Dims = Dims]
                   /\ UNCHANGED calls
              ELSE /\ pc' = "trial"
                   /\ opt' = [updateDims([opt EXCEPT !.fn = n], Dims) EXCEPT
                                !.DoRandomize = cfg.DoRandomize,
                                !.signs = IF cfg.DoRandomize
                                          THEN [m \in 1..Dims |-> 0]
                                          ELSE [m \in 1..Dims |-> 1]]
                   /\ calls' = [calls EXCEPT !.updateDims = @ + 1]
    /\ UNCHANGED <<cfg, agg, rnd, env, out, prev, runNo, py>>

\* Head of trial j: the signs are drawn when randomization is on.
trial_signs ==
    /\ pc = "trial"
    /\ loc.j < cfg.IterCount
    /\ IF cfg.DoRandomize
       THEN /\ opt' = [opt EXCEPT !.signs = DrawSigns(opt.Dims, rnd)]
            /\ rnd' = RndAt(rnd, opt.Dims)
       ELSE UNCHANGED <<opt, rnd>>
    /\ calls' = [calls EXCEPT !.signs = @ + 1]
    /\ pc' = "init"
    /\ UNCHANGED <<cfg, agg, loc, env, out, prev, runNo, py>>

\* opt -> init( rnd ); i = 0;
trial_init ==
    /\ pc = "init"
    /\ LET r == OptInit(opt, rnd, env.cost)
       IN  /\ opt' = r.o
           /\ rnd' = r.s
    /\ loc' = [loc EXCEPT !.i = 0]
    /\ calls' = [calls EXCEPT !.init = @ + 1, !.best = <<>>]
    /\ pc' = "step"
    /\ UNCHANGED <<cfg, agg, env, out, prev, runNo, py>>

\* One pass of the while( true ) loop: optimize, i++, then the stop test
\* and the reject test.
trial_step ==
    /\ pc = "step"
    /\ loc.i < StepCap
    /\ LET r == OptStep(opt, rnd, env.cost)
           i == loc.i + 1
           best == r.o.BestCost
       IN  /\ opt' = r.o
           /\ rnd' = r.s
           /\ IF Converged(best, TestFn(opt.fn).OptValue, cfg.CostThreshold)
              THEN /\ loc' = [loc EXCEPT !.i = i, !.AvgCost = @ + best,
                                        !.Iters[loc.j + 1] = i,
                                        !.AvgIter = @ + i, !.j = @ + 1]
                   /\ pc' = "trial"
                   /\ calls' = [calls EXCEPT !.optimize = @ + 1, !.classified = @ + 1,
                                            !.best = Append(@, best)]
              ELSE IF Exhausted(i, cfg.InnerIterCount)
              THEN /\ loc' = [loc EXCEPT !.i = i, !.AvgRjCost = @ + best,
                                        !.Rej = @ + 1,
                                        !.Iters[loc.j + 1] = -1, !.j = @ + 1]
                   /\ pc' = "trial"
                   /\ calls' = [calls EXCEPT !.optimize = @ + 1, !.classified = @ + 1,
                                            !.best = Append(@, best)]
              ELSE /\ loc' = [loc EXCEPT !.i = i]
                   /\ pc' = "step"
                   /\ calls' = [calls EXCEPT !.optimize = @ + 1,
                                            !.best = Append(@, best)]
    /\ UNCHANGED <<cfg, agg, env, out, prev, runNo, py>>

\* After the last trial of function k: its statistics, the report line and
\* the sums of the aggregates.
func_end ==
    /\ pc = "trial"
    /\ loc.j >= cfg.IterCount
    /\ LET Avg == FuncAvg(loc.AvgIter, cfg.IterCount, loc.Rej)
           RMS == FuncRMS(loc.Iters, Avg, cfg.IterCount, loc.Rej)
       IN  /\ out' = Append(out,
                        [fn |-> opt.fn, Dims |-> opt.Dims, Avg |-> Avg, RMS |-> RMS,
                         Rej |-> loc.Rej, Iters |-> loc.Iters,
                         RejRate |-> RejectRate(loc.Rej, cfg.IterCount),
                         AvgCost |-> FuncAvgCost(loc.AvgCost, cfg.IterCount, loc.Rej),
                         AvgRjCost |-> FuncAvgRjCost(loc.AvgRjCost, loc.Rej)])
           /\ agg' = AggAdd(agg, Avg, RMS, loc.Rej, cfg.IterCount)
    /\ loc' = [loc EXCEPT !.k = @ + 1]
    /\ pc' = "func"
    /\ UNCHANGED <<cfg, opt, rnd, env, calls, prev, runNo, py>>

\* After the last function: the sums become means.
run_end ==
    /\ pc = "func"
    /\ loc.k >= cfg.FnCount
    /\ agg' = AggFinish(agg, cfg.FnCount)
    /\ pc' = "done"
    /\ UNCHANGED <<cfg, loc, opt, rnd, env, out, calls, prev, runNo, py>>

\* The caller reseeds rnd with the same seed and calls run() again on the
\* same tester.
rerun ==
    /\ pc = "done"
    /\ runNo = 1
    /\ prev' = [agg |-> agg, out |-> out]
    /\ rnd' = env.seed
    /\ runNo' = 2
    /\ pc' = "ready"
    /\ UNCHANGED <<cfg, agg, loc, opt, env, out, calls, py>>

InitTester ==
    /\ pc = "new"
    /\ cfg = NoCfg
    /\ agg = ZeroAgg
    /\ loc = NoLocals
    /\ opt = NoOpt
    /\ env \in [seed : 0..(RndMod - 1), cost : [0..(RndMod - 1) -> CostSet]]
    /\ rnd = env.seed
    /\ out = <<>>
    /\ calls = NoCalls
    /\ prev = [agg |-> ZeroAgg, out |-> <<>>]
    /\ runNo = 1

Init ==
    /\ InitTester
    /\ py = NoPy

init_call ==
    \E aDefDims \in -1..MaxDims, nFuncs \in 0..MaxFnCount,
       aThreshold \in Thresholds, aIterCount \in -1..MaxIterCount,
       aInnerIterCount \in -1..MaxInnerIterCount, aDoRandomize \in BOOLEAN :
        init(aDefDims, nFuncs, aThreshold, aIterCount, aInnerIterCount, aDoRandomize)

Next ==
    \/ init_call
    \/ run_begin
    \/ func_begin
    \/ trial_signs
    \/ trial_init
    \/ trial_step
    \/ func_end
    \/ run_end

Spec == Init /\ [][Next]_vars

NextDet == Next \/ rerun

SpecDet == Init /\ [][NextDet]_vars

\* ------------------------------------------------- minimize_func (Python)
\* A Python value handed to PyFloat_AsDouble: a number, or anything else.
PyItems ==
    {[num |-> TRUE, v |-> n] : n \in 0..MaxBound} \cup {[num |-> FALSE, v |-> 0]}

PyLists == UNION {[1..n -> PyItems] : n \in 0..MaxListLen}

\* A Python argument: an iterable with its items, or a non-iterable object.
PyObjects ==
    {[iter |-> TRUE, items |-> l] : l \in PyLists}
        \cup {[iter |-> FALSE, items |-> <<>>]}

\* PyObject_GetIter and the PyIter_Next / PyFloat_AsDouble loop.
ParseList(obj, pos) ==
    IF ~obj.iter
    THEN [ok |-> FALSE, vec |-> <<>>, err |-> "a list is required in " \o pos]
    ELSE IF \E m \in 1..Len(obj.items) : ~obj.items[m].num
    THEN [ok |-> FALSE, vec |-> <<>>, err |-> "numerical list is required"]
    ELSE [ok |-> TRUE, vec |-> [m \in 1..Len(obj.items) |-> obj.items[m].v],
          err |-> "none"]

\* lower.size() != upper.size()
SizeMismatch(lower, upper) == Len(lower) # Len(upper)

\* Faulty variant: the loop stops one element early.
BoundInverted_SkipLast(lower, upper) ==
    \E m \in 1..(Len(lower) - 1) : lower[m] > upper[m]

\* for i < lower.size(): lower[i] > upper[i]
BoundInverted(lower, upper) == \E m \in 1..Len(lower) : lower[m] > upper[m]

\* biteopt_minimize: one optimizer run, which evaluates the objective
\* through the closure `evals` times.
biteopt_minimize(evals) == [optCalls |-> 1, objCalls |-> evals]

minimize_func(lower_py, upper_py, evals) ==
    LET lo == ParseList(lower_py, "2nd pos")
        up == ParseList(upper_py, "3rd pos")
        none == [optCalls |-> 0, objCalls |-> 0]
    IN  IF ~lo.ok THEN [err |-> lo.err, ran |-> none]
        ELSE IF ~up.ok THEN [err |-> up.err, ran |-> none]
        ELSE IF SizeMismatch(lo.vec, up.vec)
        THEN [err |-> "matching list lengths required", ran |-> none]
        ELSE IF BoundInverted(lo.vec, up.vec)
        THEN [err |-> "lower should not be greater than upper", ran |-> none]
        ELSE [err |-> "none", ran |-> biteopt_minimize(evals)]

\* The host calls _minimize(func, lower, upper).
minimize_call ==
    /\ py.state = "args"
    /\ \E evals \in 1..MaxEvals :
        py' = [py EXCEPT !.state = "returned",
                         !.res = minimize_func(py.lower_py, py.upper_py, evals)]
    /\ UNCHANGED <<pc, cfg, agg, loc, opt, rnd, env, out, calls, prev, runNo>>

InitBinding ==
    /\ InitTester
    /\ env = [seed |-> 0, cost |-> [d \in 0..(RndMod - 1) |-> 0]]
    /\ py \in [state : {"args"}, lower_py : PyObjects, upper_py : PyObjects,
               res : {[err |-> "none", ran |-> [optCalls |-> 0, objCalls |-> 0]]}]

NextBinding == minimize_call

SpecBinding == InitBinding /\ [][NextBinding]_vars

\* ================================================================ claims
InRun == pc \in {"func", "trial", "init", "step", "done"}

InFunction == pc \in {"trial", "init", "step"}

\* The configurations the specification calls invalid.
InvalidConfig ==
    \/ cfg.FnCount = 0
    \/ cfg.IterCount <= 0
    \/ cfg.InnerIterCount <= 0
    \/ \E n \in 1..cfg.FnCount : ResolvedDims(n, cfg.DefDims) <= 0

ValidConfig == pc # "new" /\ ~InvalidConfig

\* ---------------------------------------------------------------- C1
PyWellFormed(obj) == obj.iter /\ \A m \in 1..Len(obj.items) : obj.items[m].num

PyLenMismatch == Len(py.lower_py.items) # Len(py.upper_py.items)

PyInverted ==
    \E m \in 1..Min(Len(py.lower_py.items), Len(py.upper_py.items)) :
        /\ py.lower_py.items[m].num
        /\ py.upper_py.items[m].num
        /\ py.lower_py.items[m].v > py.upper_py.items[m].v

\* C1: after minimize(func, lower, upper) returns: if len(lower) # len(upper)
\* or lower[i] > upper[i] for some i, an error is reported and neither the
\* optimizer nor the objective has been called; if both arguments are
\* numeric lists and both checks pass, the optimizer has been called
\* exactly once and no error is reported.
C1_BoundsValidated ==
    py.state = "returned" =>
        /\ (PyLenMismatch \/ PyInverted) =>
              /\ py.res.err # "none"
              /\ py.res.ran.optCalls = 0
              /\ py.res.ran.objCalls = 0
        /\ (/\ PyWellFormed(py.lower_py)
            /\ PyWellFormed(py.upper_py)
            /\ ~PyLenMismatch
            /\ ~PyInverted) =>
              /\ py.res.err = "none"
              /\ py.res.ran.optCalls = 1

\* A call with two numeric lists of equal length whose last bound pair is
\* inverted has returned an error.
C1_Witness ==
    /\ py.state = "returned"
    /\ PyWellFormed(py.lower_py)
    /\ PyWellFormed(py.upper_py)
    /\ Len(py.lower_py.items) = MaxListLen
    /\ ~PyLenMismatch
    /\ py.lower_py.items[1].v <= py.upper_py.items[1].v
    /\ py.lower_py.items[MaxListLen].v > py.upper_py.items[MaxListLen].v
    /\ py.res.err = "lower should not be greater than upper"

\* ---------------------------------------------------------------- C2
\* C2: with an empty corpus, iterCount <= 0, innerIterCount <= 0 or a
\* resolved dimensionality <= 0, the run fails before any trial: the
\* optimizer is never initialized or stepped, no statistics are produced
\* and run() does not complete normally.
C2_ConfigRejected ==
    (pc # "new" /\ InvalidConfig) =>
        /\ calls.init = 0
        /\ calls.optimize = 0
        /\ out = <<>>
        /\ pc # "done"

\* ---------------------------------------------------------------- C3
\* C3: in the statistics of a function with at least one trial, the
\* average reject cost is a defined number when no trial rejected, and the
\* average success cost is a defined number when every trial rejected.
C3_GuardedDivisions ==
    \A n \in 1..Len(out) :
        /\ (cfg.IterCount > 0 /\ out[n].Rej = 0) => IsNum(out[n].AvgRjCost)
        /\ (cfg.IterCount > 0 /\ out[n].Rej = cfg.IterCount) => IsNum(out[n].AvgCost)

\* ---------------------------------------------------------------- C4
\* The optimizer never reports a cost below the known optimum of a
\* function of the corpus.
NeverBelowOptimum ==
    \A n \in 1..cfg.FnCount : \A d \in DOMAIN env.cost :
        env.cost[d] >= TestFn(n).OptValue

AllSentinel ==
    /\ \A n \in 1..Len(out) :
          /\ out[n].Rej = cfg.IterCount
          /\ out[n].Avg = D(Sentinel)
    /\ cfg.FnCount > 0 => agg.ItAvg = D(Sentinel)

\* C4 as stated: with a negative costThreshold, whatever costs the
\* optimizer reports, run() ends with every function at rejectCount =
\* iterCount and avgIterations = 1,000,000, and (for a corpus that has a
\* function) the aggregate average at 1,000,000.
C4_Original ==
    (pc = "done" /\ cfg.CostThreshold < 0) => AllSentinel

\* C4 amended: the same, provided the optimizer never reports a best cost
\* below the known optimum of the function.
C4_NegativeThresholdSentinel ==
    (pc = "done" /\ cfg.CostThreshold < 0 /\ NeverBelowOptimum) => AllSentinel

\* A run over the whole corpus with randomization, MaxIterCount trials per
\* function and a negative threshold has ended, the optimizer having
\* reported the optimum of a function itself.
C4_Witness ==
    /\ pc = "done"
    /\ cfg.CostThreshold < 0
    /\ NeverBelowOptimum
    /\ cfg.FnCount = MaxFnCount
    /\ cfg.IterCount = MaxIterCount
    /\ cfg.InnerIterCount = MaxInnerIterCount
    /\ Len(out) = MaxFnCount
    /\ \E d \in DOMAIN env.cost : env.cost[d] = TestFn(MaxFnCount).OptValue
    /\ calls.optimize = MaxFnCount * MaxIterCount * MaxInnerIterCount

\* ---------------------------------------------------------------- C5
\* C5: once a trial has started, it has performed at most innerIterCount
\* optimizer steps, and the run at most FnCount * iterCount *
\* innerIterCount steps.
C5_StepBound ==
    calls.optimize > 0 =>
        /\ loc.i <= cfg.InnerIterCount
        /\ calls.optimize <= cfg.FnCount * cfg.IterCount * cfg.InnerIterCount

\* The same bound for the configurations the specification calls valid,
\* with the lower bound: a classified trial has taken at least one step.
C5_StepBoundValidConfig ==
    ValidConfig =>
        /\ loc.i <= cfg.InnerIterCount
        /\ calls.optimize <= cfg.FnCount * cfg.IterCount * cfg.InnerIterCount
        /\ pc = "step" => loc.i < cfg.InnerIterCount
        /\ \A n \in 1..Len(out) : \A m \in 1..cfg.IterCount :
              out[n].Iters[m] = -1 \/ out[n].Iters[m] \in 1..cfg.InnerIterCount

\* run() is sequential code: whenever a step is possible it is taken.
SpecLive == Init /\ [][Next]_vars /\ WF_vars(Next)

\* With a valid configuration a started run() ends, whatever the optimizer
\* reports.
C5_TerminatesValidConfig == (ValidConfig /\ pc = "func") ~> (pc = "done")

\* ---------------------------------------------------------------- C6
Successes(iters, n) == Cardinality({m \in 1..n : iters[m] >= 1})

Rejects(iters, n) == Cardinality({m \in 1..n : iters[m] = -1})

Classification ==
    /\ InFunction =>
          /\ loc.Rej = Rejects(loc.Iters, loc.j)
          /\ loc.j = Successes(loc.Iters, loc.j) + Rejects(loc.Iters, loc.j)
          /\ loc.j <= cfg.IterCount
    /\ \A n \in 1..Len(out) :
          /\ 0 <= out[n].Rej
          /\ out[n].Rej <= cfg.IterCount
          /\ out[n].Rej = Rejects(out[n].Iters, cfg.IterCount)
          /\ out[n].Rej + Successes(out[n].Iters, cfg.IterCount) = cfg.IterCount

\* C6: every trial of a function is classified exactly once as a success
\* or as a reject, so 0 <= rejectCount <= iterCount, rejectCount plus the
\* successes is iterCount, and rejectRate is a number in [0, 1].
C6_RejectRateBounded ==
    /\ Classification
    /\ \A n \in 1..Len(out) :
          /\ IsNum(out[n].RejRate)
          /\ 0 <= out[n].RejRate.v
          /\ out[n].RejRate.v <= Scale

\* The same for the configurations the specification calls valid.
C6_RejectRateBoundedValidConfig == ValidConfig => C6_RejectRateBounded

\* ---------------------------------------------------------------- C7
RECURSIVE DSum(_, _)
DSum(seq, n) == IF n = 0 THEN D(0) ELSE DAdd(DSum(seq, n - 1), seq[n])

AvgSeq == [n \in 1..Len(out) |-> out[n].Avg]

RatioSeq == [n \in 1..Len(out) |-> DDiv(out[n].RMS, out[n].Avg)]

RateSeq == [n \in 1..Len(out) |-> out[n].RejRate]

\* C7: after run(), each aggregate is the sum over all FnCount functions
\* of the function's value divided by FnCount; a function whose trials all
\* rejected is among them with Avg = RMS = 1,000,000; and run() only
\* throws for a negative trial count or dimensionality, never for a
\* function that failed.
C7_AggregateMeans ==
    /\ pc = "done" =>
          /\ Len(out) = cfg.FnCount
          /\ agg.ItAvg = DDiv(DSum(AvgSeq, cfg.FnCount), D(cfg.FnCount))
          /\ agg.ItRtAvg = DDiv(DSum(RatioSeq, cfg.FnCount), D(cfg.FnCount))
          /\ agg.RjAvg = DDiv(DSum(RateSeq, cfg.FnCount), D(cfg.FnCount))
    /\ \A n \in 1..Len(out) :
          Rejects(out[n].Iters, cfg.IterCount) = cfg.IterCount =>
              /\ out[n].Avg = D(Sentinel)
              /\ out[n].RMS = D(Sentinel)
    /\ pc = "threw" => (cfg.IterCount < 0 \/ opt.Dims < 0)

\* A run has ended in which the first function failed in every one of its
\* MaxIterCount trials and the second function had a success.
C7_Witness ==
    /\ pc = "done"
    /\ cfg.FnCount >= 2
    /\ cfg.IterCount = MaxIterCount
    /\ out[1].Rej = cfg.IterCount
    /\ out[2].Rej < cfg.IterCount
    /\ IsNum(agg.ItAvg)
    /\ agg.ItAvg.v > D(Sentinel).v \div cfg.FnCount

\* ---------------------------------------------------------------- C8
\* C8: a second run() on the same tester, with the same configuration and
\* with rnd reseeded to the same seed, ends with the same per-function
\* statistics and the same aggregates as the first.
C8_Deterministic ==
    (runNo = 2 /\ pc = "done") => (agg = prev.agg /\ out = prev.out)

\* The second run, with randomization, has ended, and a function had both
\* a success and a reject.
C8_Witness ==
    /\ runNo = 2
    /\ pc = "done"
    /\ cfg.DoRandomize
    /\ cfg.FnCount >= 1
    /\ \E n \in 1..Len(out) : out[n].Rej > 0 /\ out[n].Rej < cfg.IterCount
    /\ \E n \in 1..Len(out) : out[n].Dims >= 1

\* ---------------------------------------------------------------- C9
Count(b) == IF b THEN 1 ELSE 0

\* C9: functions are taken in corpus order; updateDims has run once per
\* function, before its trials, with the function's resolved
\* dimensionality; in each trial the sign phase precedes the optimizer's
\* init (signs drawn as +1/-1 with randomization, all +1 without), init
\* has run once per trial and before its first step, and a trial is
\* initialized only after every earlier trial has been classified.
C9_Protocol ==
    /\ \A n \in 1..Len(out) :
          out[n].fn = n /\ out[n].Dims = ResolvedDims(n, cfg.DefDims)
    /\ InRun =>
          /\ Len(out) = loc.k
          /\ calls.updateDims = loc.k + Count(InFunction)
          /\ calls.signs = calls.init + Count(pc = "init")
          /\ calls.init = calls.classified + Count(pc = "step")
          /\ calls.classified = loc.k * cfg.IterCount + (IF InFunction THEN loc.j ELSE 0)
    /\ InFunction =>
          /\ opt.fn = loc.k + 1
          /\ opt.Dims = ResolvedDims(opt.fn, cfg.DefDims)
          /\ Len(opt.signs) = opt.Dims
    /\ pc \in {"init", "step"} =>
          \A m \in 1..opt.Dims :
              IF cfg.DoRandomize THEN opt.signs[m] \in {1, -1} ELSE opt.signs[m] = 1
    /\ pc = "step" => Len(calls.best) = loc.i

\* The second trial of the second function is past its first step, with
\* randomization and at least one dimension.
C9_Witness ==
    /\ pc = "step"
    /\ loc.k = 1
    /\ loc.j = 1
    /\ loc.i = 1
    /\ cfg.DoRandomize
    /\ opt.Dims >= 1

\* --------------------------------------------------------------- C10
RECURSIVE IterSum(_, _)
IterSum(iters, n) ==
    IF n = 0 THEN 0
    ELSE IterSum(iters, n - 1) + (IF iters[n] >= 1 THEN iters[n] ELSE 0)

\* The steps of the trial just classified after which the stop condition held.
Hits ==
    {m \in 1..cfg.InnerIterCount :
        /\ m <= Len(calls.best)
        /\ Converged(calls.best[m], TestFn(opt.fn).OptValue, cfg.CostThreshold)}

\* C10: when a trial has just been classified: it is a success with s
\* steps exactly when s is the first step in 1..innerIterCount after which
\* bestCost - knownOptimum < costThreshold, and it stopped there; it is a
\* reject only when no step in 1..innerIterCount passed the test, after
\* innerIterCount steps; the iteration sum holds the successes only, and
\* the first trial of a function adds its cost to the sum of its outcome.
C10_TrialOutcome ==
    (pc = "trial" /\ loc.j >= 1) =>
        LET s == loc.Iters[loc.j]
            last == calls.best[Len(calls.best)]
        IN  /\ s = -1 \/ s >= 1
            /\ s >= 1 =>
                  /\ s \in Hits
                  /\ \A m \in Hits : s <= m
                  /\ Len(calls.best) = s
            /\ s = -1 =>
                  /\ Hits = {}
                  /\ Len(calls.best) = cfg.InnerIterCount
            /\ loc.AvgIter = IterSum(loc.Iters, loc.j)
            /\ loc.Rej = Rejects(loc.Iters, loc.j)
            /\ loc.j = 1 =>
                  /\ loc.AvgCost = (IF s >= 1 THEN last ELSE 0)
                  /\ loc.AvgRjCost = (IF s = -1 THEN last ELSE 0)

\* The same for the configurations the specification calls valid.
C10_TrialOutcomeValidConfig == ValidConfig => C10_TrialOutcome

====
